---- MODULE Spec2Model ----
(***************************************************************************)
(* Model of apps/api/src/scraper/WebScraper/single_url.ts: the fallback    *)
(* order planner (getScrapingFallbackOrder) and the orchestration loop of  *)
(* scrapSingleUrl with its nested attemptScraping.                         *)
(*                                                                         *)
(* Strings are not modelled character by character.  A piece of content is *)
(* a record: `tag` is the number of the loop iteration that produced it    *)
(* (0 for the initial "" and for the pre-fetched html), `via` says which   *)
(* fetch produced it, and for the strings whose length the code reads,     *)
(* `core` is the number of characters that survive trim() and `pad` the    *)
(* number of surrounding whitespace characters.                            *)
(***************************************************************************)
EXTENDS Integers, Sequences, FiniteSets, TLC

VARIABLES
    env,              \* process.env: which endpoints / credentials are set
    defaultScraper,   \* urlSpecificParams[urlKey]?.defaultScraper ?? ""
    pageOptions,      \* the fields of pageOptions read by the planner call
    existingHtml,     \* the existingHtml argument
    pc,               \* position inside scrapSingleUrl
    scrapersInOrder,  \* result of getScrapingFallbackOrder
    idx,              \* position of the for-of iterator in scrapersInOrder
    scraperResponse,  \* attemptScraping's local, after the switch
    text, html, rawHtml, screenshot, pageStatusCode, pageError,
    attempt,          \* const attempt of the loop body (line 626)
    result,           \* what the call handed to its caller
    exit,             \* how the for loop was left
    caught,           \* the error that reached the catch block, if any
    attempts,         \* number of completed attemptScraping calls
    adapterInvoked,   \* some scrapWith* adapter has been called
    hookInvoked,      \* handleCustomScraping has been called
    customScrapedContent, \* attemptScraping's local of that name (line 545)
    tried,            \* the backends attemptScraping was called with, in order
    calls,            \* the adapters called by the current attemptScraping
    pending,          \* an adapter call that has reached its finally block
    invocations,      \* the adapter calls that have ended, in order
    auditLog,         \* the records handed to logScrape, in order
    reqArgs,          \* the arguments of a generateRequestParams call
    reqParams         \* what generateRequestParams returned

vars == << env, defaultScraper, pageOptions, existingHtml, pc, scrapersInOrder,
           idx, scraperResponse, text, html, rawHtml, screenshot,
           pageStatusCode, pageError, attempt, result, exit, caught,
           attempts, adapterInvoked, hookInvoked, customScrapedContent,
           tried, calls, pending, invocations, auditLog, reqArgs, reqParams >>

\* the state of the adapters taken alone, and of generateRequestParams
adapterVars == << pending, invocations, auditLog >>

resolverVars == << reqArgs, reqParams >>

\* the state of scrapSingleUrl
loopVars == << env, defaultScraper, pageOptions, existingHtml, pc,
               scrapersInOrder, idx, scraperResponse, text, html, rawHtml,
               screenshot, pageStatusCode, pageError, attempt, result, exit,
               caught, attempts, adapterInvoked, hookInvoked,
               customScrapedContent, tried, calls >>

-----------------------------------------------------------------------------
(* Bounds of the model *)

\* number of whitespace characters around a padded text
MaxPad == 1
\* how far past the threshold the longest text goes
MaxExcess == 0

\* most leading "www." labels of a hostname
MaxWww == 2
\* most adapter calls in a row when the adapters are explored alone
MaxCalls == 2

(* Program constants *)

\* line 619 and line 641: the length a trimmed text must reach
SufficientLength == 100
\* line 642: the status that halts the loop
NotFound == 404
\* lines 635 and 637: the first status that counts as an error
ErrorFloor == 400
\* line 599: the initial pageStatusCode
InitialStatus == 200
\* lines 103, 276, 356 and 375: the response status of a served request
OkStatus == 200

-----------------------------------------------------------------------------
(* JavaScript values *)

Undefined == [k |-> "undefined", v |-> 0]
Null      == [k |-> "null", v |-> 0]
Num(n)    == [k |-> "number", v |-> n]

\* truthiness of a number | null | undefined
TruthyNum(x) == x.k = "number" /\ x.v # 0

\* x >= n with JavaScript's ToNumber: null is 0, undefined is NaN
JsGe(x, n) == x.k # "undefined" /\ x.v >= n

\* x < n with JavaScript's ToNumber
JsLt(x, n) == x.k # "undefined" /\ x.v < n

\* x == n (loose equality with a number)
JsEqNum(x, n) == x.k = "number" /\ x.v = n

NoError == "undefined"

\* truthiness of a string | undefined
TruthyStr(s) == s # NoError /\ s # ""

\* s || undefined
OrUndefined(s) == IF TruthyStr(s) THEN s ELSE NoError

\* String.prototype.length
StrLen(t) == t.core + t.pad

\* String.prototype.trim
Trim(t) == [t EXCEPT !.pad = 0]

\* truthiness of a string
TruthyText(t) == StrLen(t) > 0

EmptyText == [tag |-> 0, via |-> "none", core |-> 0, pad |-> 0]
EmptyContent == [tag |-> 0, via |-> "none"]
EmptyShot == [tag |-> 0, via |-> "none", len |-> 0]

-----------------------------------------------------------------------------
(* The planner *)

baseScrapers ==
    << "fire-engine", "scrapingBee", "playwright", "scrapingBeeLoad", "fetch" >>

Range(s) == { s[j] : j \in 1..Len(s) }

\* the switch of lines 411-421: is the scraper's endpoint / credential set
IsAvailable(e, scraper) ==
    CASE scraper \in {"scrapingBee", "scrapingBeeLoad"} -> e.SCRAPING_BEE_API_KEY
      [] scraper = "fire-engine" -> e.FIRE_ENGINE_BETA_URL
      [] scraper = "playwright" -> e.PLAYWRIGHT_MICROSERVICE_URL
      [] OTHER -> TRUE

availableScrapers(e) == SelectSeq(baseScrapers, LAMBDA s : IsAvailable(e, s))

initialDefaultOrder ==
    << "scrapingBee", "fire-engine", "playwright", "scrapingBeeLoad", "fetch" >>

IsHeavy(s) == s = "fire-engine" \/ s = "playwright"

\* variant of defaultOrder: the flags are ignored
defaultOrderUnpromoted(isWait, isShot, isHeaders) ==
    << "scrapingBee", "fire-engine", "playwright", "scrapingBeeLoad", "fetch" >>

\* lines 432-440: heavy backends first when a flag is set
defaultOrder(isWait, isShot, isHeaders) ==
    IF isWait \/ isShot \/ isHeaders
      THEN << "fire-engine", "playwright" >>
             \o SelectSeq(initialDefaultOrder, LAMBDA s : ~IsHeavy(s))
      ELSE initialDefaultOrder

\* variant of SetOrder: a plain array, nothing removed
SetOrderKeepAll(s) == s

\* Array.from(new Set(s)): insertion order, first occurrence kept
RECURSIVE SetOrder(_)
SetOrder(s) ==
    IF s = << >> THEN << >>
    ELSE LET init == SetOrder(SubSeq(s, 1, Len(s) - 1))
             last == s[Len(s)]
         IN IF last \in Range(init) THEN init ELSE Append(init, last)

\* lines 442-445
filteredDefaultOrder(e, isWait, isShot, isHeaders) ==
    SelectSeq(defaultOrder(isWait, isShot, isHeaders),
              LAMBDA s : s \in Range(availableScrapers(e)))

\* variant of Candidates: the forced backend is appended instead of prepended
CandidatesForcedLast(e, forced, isWait, isShot, isHeaders) ==
    IF forced # ""
      THEN filteredDefaultOrder(e, isWait, isShot, isHeaders)
             \o availableScrapers(e) \o << forced >>
      ELSE filteredDefaultOrder(e, isWait, isShot, isHeaders)
             \o availableScrapers(e)

\* lines 447-449: the array handed to new Set
Candidates(e, forced, isWait, isShot, isHeaders) ==
    IF forced # ""
      THEN << forced >> \o filteredDefaultOrder(e, isWait, isShot, isHeaders)
                        \o availableScrapers(e)
      ELSE filteredDefaultOrder(e, isWait, isShot, isHeaders)
             \o availableScrapers(e)

getScrapingFallbackOrder(e, forced, isWait, isShot, isHeaders) ==
    SetOrder(Candidates(e, forced, isWait, isShot, isHeaders))

\* the three flag arguments of lines 612-614
IsWaitPresent(po) == po.waitFor > 0
IsScreenshotPresent(po) == po.screenshot = TRUE
IsHeadersPresent(po) == po.headers

-----------------------------------------------------------------------------
(* Input spaces *)

Envs == [ FIRE_ENGINE_BETA_URL : BOOLEAN,
          SCRAPING_BEE_API_KEY : BOOLEAN,
          PLAYWRIGHT_MICROSERVICE_URL : BOOLEAN ]

DefaultScrapers == {""} \cup Range(baseScrapers)

\* waitFor: absent / zero, or a positive number of milliseconds
AllPageOptions == [ waitFor : {0, 1000}, screenshot : BOOLEAN, headers : BOOLEAN ]

Cores == {0} \cup ((SufficientLength - 1)..(SufficientLength + MaxExcess))

\* what a backend may report as pageStatusCode
Statuses == { Undefined, Null, Num(InitialStatus), Num(NotFound), Num(ErrorFloor) }
\* what a backend may report as pageError
Errors == { NoError, "error" }

\* the texts a conversion may produce: "", and each core length inside
\* MaxPad whitespace characters
Lengths == { << 0, 0 >> } \cup (Cores \X {MaxPad})

Texts(n, via) ==
    { [tag |-> n, via |-> via, core |-> l[1], pad |-> l[2]] : l \in Lengths }

ExistingHtmls == { EmptyText } \cup
    { [tag |-> 0, via |-> "existing", core |-> c, pad |-> MaxPad] :
        c \in (SufficientLength - 1)..SufficientLength }

Absent == [tag |-> 0, via |-> "undefined"]
AbsentShot == [tag |-> 0, via |-> "undefined", len |-> 0]

-----------------------------------------------------------------------------
(* The pieces of the loop body *)

\* variant of UseExisting: > instead of >=
UseExistingStrict(h) == TruthyText(h) /\ StrLen(Trim(h)) > SufficientLength

\* line 619: existingHtml && existingHtml.trim().length >= 100
UseExisting(h) == TruthyText(h) /\ StrLen(Trim(h)) >= SufficientLength

\* variant of IsSufficient: the text is not trimmed
IsSufficientUntrimmed(t) == TruthyText(t) /\ StrLen(t) >= SufficientLength

\* line 641: text && text.trim().length >= 100
IsSufficient(t) == TruthyText(t) /\ StrLen(Trim(t)) >= SufficientLength

\* variant of HaltsOnNotFound: the status is compared with the string "404"
\* by strict equality, which never holds for a number
HaltsOnNotFoundNever(status) == FALSE

\* line 642: pageStatusCode && pageStatusCode == 404
HaltsOnNotFound(status) == TruthyNum(status) /\ JsEqNum(status, NotFound)

\* variant of Accumulate: an empty field keeps the earlier value
\* (text = attempt.text || text)
AccumulateKeep(prev, att) ==
    [ text |-> IF TruthyText(att.text) THEN att.text ELSE prev.text,
      html |-> att.html,
      rawHtml |-> att.rawHtml,
      screenshot |-> IF att.screenshot.len > 0 THEN att.screenshot
                     ELSE prev.screenshot ]

\* lines 627-630: the four accumulators after an attempt
Accumulate(prev, att) ==
    [ text |-> att.text, html |-> att.html,
      rawHtml |-> att.rawHtml, screenshot |-> att.screenshot ]

\* lines 632-634
CarryStatus(prev, att) ==
    IF TruthyNum(att.pageStatusCode) THEN att.pageStatusCode ELSE prev

\* variant of CarryError: the else-if branch that clears the error is missing
CarryErrorNoClear(prev, att) ==
    IF TruthyStr(att.pageError) /\ JsGe(att.pageStatusCode, ErrorFloor)
      THEN att.pageError
    ELSE prev

\* lines 635-639
CarryError(prev, att) ==
    IF TruthyStr(att.pageError) /\ JsGe(att.pageStatusCode, ErrorFloor)
      THEN att.pageError
    ELSE IF JsLt(att.pageStatusCode, ErrorFloor) THEN NoError
    ELSE prev

\* variant of CatchBlock: the error is thrown on to the caller
CatchBlockRethrow(status, error) ==
    [ kind |-> "raised",
      content |-> EmptyText, markdown |-> EmptyText,
      html |-> EmptyContent, rawHtml |-> Absent,
      metadata |-> [ sourceURL |-> "urlToScrap", pageStatusCode |-> status,
                     pageError |-> error, screenshot |-> AbsentShot ] ]

\* lines 687-698: the catch block of scrapSingleUrl
CatchBlock(status, error) ==
    [ kind |-> "document",
      content |-> EmptyText, markdown |-> EmptyText,
      html |-> EmptyContent, rawHtml |-> Absent,
      metadata |-> [ sourceURL |-> "urlToScrap", pageStatusCode |-> status,
                     pageError |-> error, screenshot |-> AbsentShot ] ]

\* lines 656-686: the document assembled on the normal path
BuildDocument(t, h, r, shot, status, error, includeHtml, includeRawHtml) ==
    [ kind |-> "document",
      content |-> t, markdown |-> t,
      html |-> IF includeHtml THEN h ELSE Absent,
      rawHtml |-> IF includeRawHtml THEN r ELSE Absent,
      metadata |-> [ sourceURL |-> "urlToScrap", pageStatusCode |-> status,
                     pageError |-> error,
                     screenshot |-> IF shot.len > 0 THEN shot ELSE AbsentShot ] ]

NoResult == [ kind |-> "pending" ]
NoResponse == [ text |-> EmptyContent, screenshot |-> EmptyShot,
                pageStatusCode |-> Undefined, pageError |-> NoError ]
NoAttempt == [ text |-> EmptyText, html |-> EmptyContent, rawHtml |-> EmptyContent,
               screenshot |-> EmptyShot, pageStatusCode |-> Undefined,
               pageError |-> NoError ]

-----------------------------------------------------------------------------
(* attemptScraping *)

\* lines 483-538: does the switch reach the adapter call for this method
GuardPasses(e, method) ==
    CASE method = "fire-engine" -> e.FIRE_ENGINE_BETA_URL
      [] method \in {"scrapingBee", "scrapingBeeLoad"} -> e.SCRAPING_BEE_API_KEY
      [] method = "playwright" -> e.PLAYWRIGHT_MICROSERVICE_URL
      [] method = "fetch" -> TRUE
      [] OTHER -> FALSE

\* what the adapter of `method` can hand back on iteration n; only
\* scrapWithFireEngine returns a screenshot (lines 494-497, 507-509, ...)
AdapterResults(method, n) ==
    { [ text |-> [tag |-> n, via |-> method], screenshot |-> sh,
        pageStatusCode |-> st, pageError |-> er ] :
        sh \in IF method = "fire-engine"
                 THEN { EmptyShot, [tag |-> n, via |-> method, len |-> 1] }
                 ELSE { EmptyShot },
        st \in Statuses, er \in Errors }

\* what the custom override hook may return (line 543)
Directives == { "none", "fire-engine", "pdf" }

\* the status and error that the override fetch (scrapWithFireEngine or
\* fetchAndProcessPdf) may report
OverrideOutcomes ==
    { [ pageStatusCode |-> Undefined, pageError |-> NoError ],
      [ pageStatusCode |-> Num(NotFound), pageError |-> "error" ] }

NoOverrideOutcome == [ pageStatusCode |-> Undefined, pageError |-> NoError ]

\* lines 548-575: customScrapedContent for a directive; `local` is the
\* function's local screenshot variable (line 482), `fetched` the status and
\* error reported by the override fetch
CustomScrapedContent(directive, n, local, fetchedShot, fetched) ==
    CASE directive = "fire-engine" ->
           [ html |-> [tag |-> n, via |-> "custom-fire-engine"],
             screenshot |-> IF local.len > 0 THEN local ELSE fetchedShot,
             pageStatusCode |-> fetched.pageStatusCode,
             pageError |-> fetched.pageError ]
      [] directive = "pdf" ->
           [ html |-> [tag |-> n, via |-> "custom-pdf"], screenshot |-> local,
             pageStatusCode |-> fetched.pageStatusCode,
             pageError |-> fetched.pageError ]

\* variant of AttemptOutcome in which the outcome of an overridden attempt
\* takes the status and error of the override fetch
AttemptOutcomeOverrideStatus(resp, directive, n, fetchedShot, fetched, core, pad) ==
    LET custom == CustomScrapedContent(directive, n, EmptyShot, fetchedShot,
                                       fetched)
        raw == IF directive = "none" THEN resp.text ELSE custom.html
    IN  [ text |-> [tag |-> raw.tag, via |-> raw.via, core |-> core, pad |-> pad],
          html |-> raw,
          rawHtml |-> raw,
          screenshot |-> resp.screenshot,
          pageStatusCode |-> IF directive = "none" THEN resp.pageStatusCode
                             ELSE custom.pageStatusCode,
          pageError |-> IF directive = "none" THEN OrUndefined(resp.pageError)
                        ELSE OrUndefined(custom.pageError) ]

\* lines 577-591: the outcome returned by attemptScraping, given the response
\* of the switch, the directive, and the length of the converted text
AttemptOutcome(resp, directive, n, fetchedShot, fetched, core, pad) ==
    LET raw == IF directive = "none" THEN resp.text
               ELSE CustomScrapedContent(directive, n, EmptyShot, fetchedShot,
                                         fetched).html
    IN  [ text |-> [tag |-> raw.tag, via |-> raw.via, core |-> core, pad |-> pad],
          html |-> raw,
          rawHtml |-> raw,
          screenshot |-> resp.screenshot,
          pageStatusCode |-> resp.pageStatusCode,
          pageError |-> OrUndefined(resp.pageError) ]

-----------------------------------------------------------------------------
(* The adapters: scrapWithFireEngine, scrapWithScrapingBee,                *)
(* scrapWithPlaywright, scrapWithFetch                                     *)

\* error messages
TimedOut == "Request timed out"
RawTimeout == "timeout of 15000ms exceeded"
RawHttp == "Request failed with status code"
RawFailure == "Network Error"
DecodeFailure == "Unexpected token"

\* what an adapter returns
Value(content, shot, status, error) ==
    [ content |-> content, screenshot |-> shot, pageStatusCode |-> status,
      pageError |-> error ]

\* { html: "", screenshot: "" } and { content: "" }
EmptyValue == Value("", "", Undefined, NoError)

\* the fields of logParams that the adapter sets
Log(scraper, success, code, message, content) ==
    [ scraper |-> scraper, success |-> success, response_code |-> code,
      error_message |-> message, html |-> content ]

\* lines 128 and 212
IsSuccessCode(st) ==
    (JsGe(st, 200) /\ JsLt(st, 300)) \/ (st.k = "number" /\ st.v = NotFound)

\* what the provider, or fetchAndProcessPdf, answered
Replies ==
    { [ content |-> "content", screenshot |-> "screenshot",
        status |-> Num(OkStatus), error |-> NoError ],
      [ content |-> "", screenshot |-> "",
        status |-> Num(ErrorFloor), error |-> "error" ] }

\* the ways out of each adapter's try block
ExitPaths(method) ==
    CASE method = "fire-engine" ->
           { "ok", "provider-error", "pdf", "timeout", "exception" }
      [] method \in {"scrapingBee", "scrapingBeeLoad"} ->
           { "ok", "pdf", "decode-error", "timeout", "http-error", "exception" }
      [] method = "playwright" ->
           { "ok", "provider-error", "pdf", "decode-error", "timeout",
             "exception" }
      [] method = "fetch" ->
           { "ok", "provider-error", "pdf", "timeout", "exception" }

\* the replies that can take a path: scrapWithFetch returns its response's
\* own status, which is not 200 on the path of line 356
PathTakes(method, path, r) ==
    (method = "fetch" /\ path = "provider-error") => r.status # Num(OkStatus)

\* lines 50-147
scrapWithFireEngine(path, r) ==
    CASE path = "ok" ->
           [ value |-> Value(r.content, r.screenshot, r.status, r.error),
             log |-> Log("fire-engine", IsSuccessCode(r.status), r.status,
                         r.error, r.content) ]
      [] path = "provider-error" ->
           [ value |-> Value("", "", r.status, r.error),
             log |-> Log("fire-engine", FALSE, r.status, r.error, "") ]
      [] path = "pdf" ->
           [ value |-> Value(r.content, "", r.status, r.error),
             log |-> Log("fire-engine", TRUE, Null, "", "") ]
      [] path = "timeout" ->
           [ value |-> EmptyValue,
             log |-> Log("fire-engine", FALSE, Null, TimedOut, "") ]
      [] path = "exception" ->
           [ value |-> EmptyValue,
             log |-> Log("fire-engine", FALSE, Null, RawFailure, "") ]

\* lines 163-229; `scraper` is "scrapingBeeLoad" when wait_browser is
\* "networkidle2" (line 171), which is how the switch calls it for that method
scrapWithScrapingBee(scraper, path, r) ==
    CASE path = "ok" ->
           [ value |-> Value(r.content, "", r.status, r.error),
             log |-> Log(scraper, IsSuccessCode(r.status), r.status, r.error,
                         r.content) ]
      [] path = "decode-error" ->
           [ value |-> Value("", "", r.status, r.error),
             log |-> Log(scraper, IsSuccessCode(r.status), r.status, r.error,
                         "") ]
      [] path = "pdf" ->
           [ value |-> Value(r.content, "", r.status, r.error),
             log |-> Log(scraper, TRUE, Null, "", "") ]
      [] path = "timeout" ->
           [ value |-> EmptyValue,
             log |-> Log(scraper, FALSE, Undefined, RawTimeout, "") ]
      [] path = "http-error" ->
           [ value |-> Value("", "", r.status, r.error),
             log |-> Log(scraper, FALSE, r.status, RawHttp, "") ]
      [] path = "exception" ->
           [ value |-> EmptyValue,
             log |-> Log(scraper, FALSE, Undefined, RawFailure, "") ]

\* lines 237-323
scrapWithPlaywright(path, r) ==
    CASE path = "ok" ->
           [ value |-> Value(r.content, "", r.status, r.error),
             log |-> Log("playwright", TRUE, r.status, r.error, r.content) ]
      [] path = "provider-error" ->
           [ value |-> Value("", "", r.status, r.error),
             log |-> Log("playwright", FALSE, r.status, r.error, "") ]
      [] path = "pdf" ->
           [ value |-> Value(r.content, "", r.status, r.error),
             log |-> Log("playwright", TRUE, Null, "", "") ]
      [] path = "decode-error" ->
           [ value |-> EmptyValue,
             log |-> Log("playwright", FALSE, Null, DecodeFailure, "") ]
      [] path = "timeout" ->
           [ value |-> EmptyValue,
             log |-> Log("playwright", FALSE, Null, TimedOut, "") ]
      [] path = "exception" ->
           [ value |-> EmptyValue,
             log |-> Log("playwright", FALSE, Null, RawFailure, "") ]

\* lines 331-390
scrapWithFetch(path, r) ==
    CASE path = "ok" ->
           [ value |-> Value(r.content, "", Num(OkStatus), NoError),
             log |-> Log("fetch", TRUE, Num(OkStatus), "null", r.content) ]
      [] path = "provider-error" ->
           [ value |-> Value("", "", r.status, r.error),
             log |-> Log("fetch", FALSE, r.status, r.error, "") ]
      [] path = "pdf" ->
           [ value |-> Value(r.content, "", r.status, r.error),
             log |-> Log("fetch", TRUE, Null, "", "") ]
      [] path = "timeout" ->
           [ value |-> EmptyValue,
             log |-> Log("fetch", FALSE, Null, TimedOut, "") ]
      [] path = "exception" ->
           [ value |-> EmptyValue,
             log |-> Log("fetch", FALSE, Null, RawFailure, "") ]

\* the try and catch blocks of the adapter that the switch calls for `method`
RunAdapter(method, path, r) ==
    CASE method = "fire-engine" -> scrapWithFireEngine(path, r)
      [] method \in {"scrapingBee", "scrapingBeeLoad"} ->
           scrapWithScrapingBee(method, path, r)
      [] method = "playwright" -> scrapWithPlaywright(path, r)
      [] method = "fetch" -> scrapWithFetch(path, r)

\* variant of LogScrapeCalls in which only the try block calls logScrape
LogScrapeCallsTryOnly(path, logParams) ==
    IF path \in {"timeout", "exception", "http-error"} THEN << >>
    ELSE << logParams >>

\* the finally blocks (lines 148-160, 230-234, 324-328, 391-395): the calls
\* of logScrape made on the way out by `path`
LogScrapeCalls(path, logParams) == << logParams >>

\* how the call ends: `await logScrape(...)` stands in the finally block, so
\* its rejection replaces the value being returned
FinallyOutcome(sinkRaised) == IF sinkRaised THEN "thrown" ELSE "returned"

\* no adapter call has been made
NoPending ==
    [ stage |-> "idle", method |-> "", path |-> "", sinkRaised |-> FALSE,
      value |-> EmptyValue, log |-> Log("", FALSE, Null, "", "") ]

AdaptersIdle ==
    /\ pending = NoPending
    /\ invocations = << >>
    /\ auditLog = << >>

-----------------------------------------------------------------------------
(* scrapSingleUrl *)

\* line 545: let customScrapedContent = null
NoCustom == [ html |-> EmptyContent, screenshot |-> EmptyShot,
              pageStatusCode |-> Undefined, pageError |-> NoError ]

InputsOk ==
    /\ env \in Envs
    /\ defaultScraper \in DefaultScrapers
    /\ existingHtml \in ExistingHtmls

Start ==
    /\ pc = "plan"
    /\ scrapersInOrder = << >>
    /\ idx = 0
    /\ scraperResponse = NoResponse
    /\ text = EmptyText
    /\ html = EmptyContent
    /\ rawHtml = EmptyContent
    /\ screenshot = EmptyShot
    /\ pageStatusCode = Num(InitialStatus)
    /\ pageError = NoError
    /\ attempt = NoAttempt
    /\ result = NoResult
    /\ exit = "running"
    /\ caught = "none"
    /\ attempts = 0
    /\ adapterInvoked = FALSE
    /\ hookInvoked = FALSE
    /\ customScrapedContent = NoCustom
    /\ tried = << >>
    /\ calls = << >>

\* generateRequestParams has not been called
NoArgs == [ called |-> FALSE ]

ResolverIdle ==
    /\ reqArgs = NoArgs
    /\ reqParams = NoArgs

\* Calls that skip the backends are explored for every input; calls that
\* attempt backends are explored with no forced backend or fire-engine forced,
\* and with no flag set (SpecPlan explores the planner on every input)
AttemptInputs ==
    /\ defaultScraper \in {"", "fire-engine"}
    /\ pageOptions.waitFor = 0
    /\ ~pageOptions.screenshot
    /\ ~pageOptions.headers

Init ==
    /\ InputsOk
    /\ pageOptions \in AllPageOptions
    /\ existingHtml.core >= SufficientLength \/ AttemptInputs
    /\ Start
    /\ AdaptersIdle
    /\ ResolverIdle

InitPlan ==
    /\ InputsOk
    /\ pageOptions \in AllPageOptions
    /\ Start
    /\ AdaptersIdle
    /\ ResolverIdle

\* variant of LoopAt that enters the body once more after the last backend
LoopAtInclusive(j, plan) == IF j <= Len(plan) + 1 THEN "loop" ELSE "after"

\* where the for-of loop goes when the iterator stands at position j
LoopAt(j, plan) == IF j <= Len(plan) THEN "loop" ELSE "after"

\* lines 603-615
Plan ==
    /\ pc = "plan"
    /\ scrapersInOrder' =
         getScrapingFallbackOrder(env, defaultScraper,
                                  IsWaitPresent(pageOptions),
                                  IsScreenshotPresent(pageOptions),
                                  IsHeadersPresent(pageOptions))
    /\ idx' = 1
    /\ pc' = LoopAt(1, scrapersInOrder')
    /\ exit' = IF pc' = "after" THEN "exhausted" ELSE exit
    /\ UNCHANGED << env, defaultScraper, pageOptions, existingHtml,
                    scraperResponse, text, html, rawHtml, screenshot,
                    pageStatusCode, pageError, attempt, result, caught,
                    attempts, adapterInvoked, hookInvoked,
                    customScrapedContent, tried, calls, adapterVars,
                    resolverVars >>

\* the catch block is entered with `error`: the call returns the degraded
\* document
Caught(error) ==
    /\ pc' = "done"
    /\ caught' = error
    /\ result' = CatchBlock(pageStatusCode, pageError)

\* lines 619-624: pre-fetched html is cleaned and converted, or a collaborator
\* throws
ShortCircuit ==
    /\ pc = "loop"
    /\ UseExisting(existingHtml)
    /\ \/ /\ \E t \in Texts(0, "existing") : text' = t
          /\ html' = [tag |-> 0, via |-> "existing"]
          /\ pc' = "after"
          /\ exit' = "shortcircuit"
          /\ UNCHANGED << result, caught >>
       \/ /\ Caught("collaborator")
          /\ exit' = "exception"
          /\ UNCHANGED << text, html >>
    /\ UNCHANGED << env, defaultScraper, pageOptions, existingHtml,
                    scrapersInOrder, idx, scraperResponse, rawHtml, screenshot,
                    pageStatusCode, pageError, attempt, attempts,
                    adapterInvoked, hookInvoked, customScrapedContent, tried,
                    calls, adapterVars, resolverVars >>

\* lines 477-538: the switch of attemptScraping; an adapter throws only when
\* the logScrape of its finally block does
CallAdapter ==
    /\ pc = "loop"
    /\ ~UseExisting(existingHtml)
    /\ LET method == scrapersInOrder[idx] IN
         /\ IF GuardPasses(env, method)
           THEN /\ adapterInvoked' = TRUE
                /\ \/ /\ scraperResponse' \in AdapterResults(method, idx)
                      /\ pc' = "hook"
                      /\ UNCHANGED << result, exit, caught >>
                   \/ /\ Caught("logScrape")
                      /\ exit' = "exception"
                      /\ UNCHANGED scraperResponse
           ELSE /\ scraperResponse' = [ NoResponse EXCEPT !.text.tag = idx ]
                /\ pc' = "hook"
                /\ UNCHANGED << adapterInvoked, result, exit, caught >>
         /\ tried' = Append(tried, method)
         /\ calls' = IF GuardPasses(env, method) THEN << method >> ELSE << >>
    /\ attempt' = NoAttempt
    /\ customScrapedContent' = NoCustom
    /\ UNCHANGED << env, defaultScraper, pageOptions, existingHtml,
                    scrapersInOrder, idx, text, html, rawHtml, screenshot,
                    pageStatusCode, pageError, attempts, hookInvoked,
                    adapterVars, resolverVars >>

\* lines 540-591 and 626-647: the hook, the override fetch, cleaning and
\* conversion, then the rest of the loop body
FinishAttempt ==
    /\ pc = "hook"
    /\ hookInvoked' = TRUE
    /\ \E directive \in Directives :
         /\ adapterInvoked' = (adapterInvoked \/ directive = "fire-engine")
         /\ calls' = IF directive = "fire-engine"
                       THEN Append(calls, "fire-engine") ELSE calls
         /\ \/ \E fetchedShot \in { EmptyShot,
                                    [tag |-> idx, via |-> "custom-fire-engine", len |-> 1] },
                  fetched \in OverrideOutcomes, len \in Lengths :
                 LET att == AttemptOutcome(scraperResponse, directive, idx,
                                           fetchedShot, fetched, len[1], len[2])
                     acc == Accumulate([ text |-> text, html |-> html,
                                         rawHtml |-> rawHtml,
                                         screenshot |-> screenshot ], att)
                     status == CarryStatus(pageStatusCode, att)
                 IN  /\ directive # "fire-engine" => fetchedShot = EmptyShot
                     /\ directive = "none" => fetched = NoOverrideOutcome
                     /\ customScrapedContent' =
                          IF directive = "none" THEN NoCustom
                          ELSE CustomScrapedContent(directive, idx, EmptyShot,
                                                    fetchedShot, fetched)
                     /\ scraperResponse' =
                          [ scraperResponse EXCEPT !.text = att.rawHtml ]
                     /\ text' = acc.text
                     /\ html' = acc.html
                     /\ rawHtml' = acc.rawHtml
                     /\ screenshot' = acc.screenshot
                     /\ pageStatusCode' = status
                     /\ pageError' = CarryError(pageError, att)
                     /\ attempt' = att
                     /\ attempts' = attempts + 1
                     /\ IF IsSufficient(acc.text)
                          THEN pc' = "after" /\ exit' = "sufficient" /\ idx' = idx
                        ELSE IF HaltsOnNotFound(status)
                          THEN pc' = "after" /\ exit' = "notfound" /\ idx' = idx
                        ELSE /\ idx' = idx + 1
                             /\ pc' = LoopAt(idx + 1, scrapersInOrder)
                             /\ exit' = IF pc' = "after" THEN "exhausted" ELSE exit
                     /\ UNCHANGED << result, caught >>
            \/ /\ Caught("collaborator")
               /\ exit' = "exception"
               /\ UNCHANGED << text, html, rawHtml, screenshot, pageStatusCode,
                               pageError, attempt, attempts, idx,
                               customScrapedContent >>
               /\ scraperResponse' = NoResponse
    /\ UNCHANGED << env, defaultScraper, pageOptions, existingHtml,
                    scrapersInOrder, tried, adapterVars, resolverVars >>

\* variant of NoTextObtained that fails whenever the text is insufficient
NoTextObtainedInsufficient(t) == ~IsSufficient(t)

\* variant of NoTextObtained that tests the trimmed text
NoTextObtainedTrimmed(t) == ~TruthyText(Trim(t))

\* line 649: if (!text)
NoTextObtained(t) == ~TruthyText(t)

\* lines 649-686: the terminal check and the finalizer; includeHtml and
\* includeRawHtml are read here only
Finalize ==
    /\ pc = "after"
    /\ IF NoTextObtained(text)
         THEN Caught("All scraping methods failed")
         ELSE \/ /\ \E includeHtml \in BOOLEAN, includeRawHtml \in BOOLEAN :
                      result' = BuildDocument(text, html, rawHtml, screenshot,
                                              pageStatusCode, pageError,
                                              includeHtml, includeRawHtml)
                 /\ pc' = "done"
                 /\ UNCHANGED caught
              \/ Caught("collaborator")
    /\ UNCHANGED << env, defaultScraper, pageOptions, existingHtml,
                    scrapersInOrder, idx, scraperResponse, text, html, rawHtml,
                    screenshot, pageStatusCode, pageError, attempt, exit,
                    attempts, adapterInvoked, hookInvoked,
                    customScrapedContent, tried, calls, adapterVars,
                    resolverVars >>

-----------------------------------------------------------------------------
(* generateRequestParams *)

\* line 23
universalTimeout == 15000

\* a URL string: whether new URL(url) accepts it, and its hostname as a
\* number of leading "www." labels followed by a registered name
MalformedUrl == [ valid |-> FALSE, www |-> 0, host |-> "" ]

Urls ==
    { MalformedUrl } \cup
    [ valid : {TRUE}, www : 0..MaxWww, host : {"a.com", "b.com"} ]

\* line 37: new URL(url).hostname
Hostname(url) == [ www |-> url.www, host |-> url.host ]

\* line 37: .replace(/^www\./, "") removes one leading "www."
StripWww(h) == IF h.www > 0 THEN [ h EXCEPT !.www = h.www - 1 ] ELSE h

\* lines 30-34
DefaultParams(url, wait_browser, timeout) ==
    [ url |-> url,
      params |-> [ timeout |-> timeout, wait_browser |-> wait_browser ],
      headers |-> [ ScrapingServiceRequest |-> "TRUE" ] ]

\* variant of Spread in which the properties of the first object win
SpreadFirstWins(a, b) == a @@ b

\* line 39: { ...a, ...b } has the own properties of both, those of b winning
Spread(a, b) == b @@ a

\* the hosts that urlSpecificParams may have an entry for
TableKeys == { [ www |-> 0, host |-> "a.com" ], [ www |-> 1, host |-> "a.com" ] }

OverrideFields == { "params", "headers", "defaultScraper" }

OverrideValue(f) ==
    CASE f = "params" -> [ wait_browser |-> "networkidle2", wait |-> "3000" ]
      [] f = "headers" -> [ UserAgent |-> "custom" ]
      [] f = "defaultScraper" -> "playwright"

\* an entry of urlSpecificParams: any subset of the override fields
OverrideEntries ==
    { [ f \in F |-> OverrideValue(f) ] : F \in SUBSET OverrideFields }

\* the urlSpecificParams tables of the model
UrlSpecificParams ==
    UNION { [ K -> OverrideEntries ] : K \in SUBSET TableKeys }

\* lines 25-47; new URL(url) throws on a malformed url and the catch block
\* returns the defaults
generateRequestParams(url, wait_browser, timeout, table) ==
    LET defaultParams == DefaultParams(url, wait_browser, timeout)
    IN  IF ~url.valid THEN defaultParams
        ELSE LET urlKey == StripWww(Hostname(url))
             IN  IF urlKey \in DOMAIN table
                   THEN Spread(defaultParams, table[urlKey])
                   ELSE defaultParams

\* the calls of generateRequestParams that are explored
RequestArgs ==
    [ called : {TRUE}, url : Urls,
      wait_browser : {"domcontentloaded", "networkidle2"},
      timeout : {universalTimeout, 2 * universalTimeout},
      urlSpecificParams : UrlSpecificParams ]

\* the inputs of scrapSingleUrl while another function is explored alone
LoopIdle ==
    /\ env = [ FIRE_ENGINE_BETA_URL |-> TRUE, SCRAPING_BEE_API_KEY |-> TRUE,
               PLAYWRIGHT_MICROSERVICE_URL |-> TRUE ]
    /\ defaultScraper = ""
    /\ pageOptions = [ waitFor |-> 0, screenshot |-> FALSE, headers |-> FALSE ]
    /\ existingHtml = EmptyText
    /\ Start

InitParams ==
    /\ LoopIdle
    /\ AdaptersIdle
    /\ reqArgs \in RequestArgs
    /\ reqParams = NoArgs

\* one call of generateRequestParams
GenerateRequestParams ==
    /\ reqParams = NoArgs
    /\ reqArgs # NoArgs
    /\ reqParams' = generateRequestParams(reqArgs.url, reqArgs.wait_browser,
                                          reqArgs.timeout,
                                          reqArgs.urlSpecificParams)
    /\ UNCHANGED << reqArgs, loopVars, adapterVars >>

NextParams == GenerateRequestParams

SpecParams == InitParams /\ [][NextParams]_vars

-----------------------------------------------------------------------------
(* The adapters called one after the other, as the loop calls them *)

InitAdapter ==
    /\ LoopIdle
    /\ AdaptersIdle
    /\ ResolverIdle

\* an adapter is called and runs up to its finally block
AdapterBody ==
    /\ pending.stage \in {"idle", "returned"}
    /\ Len(invocations) < MaxCalls
    /\ \E method \in Range(baseScrapers), r \in Replies :
         \E path \in ExitPaths(method) :
            /\ PathTakes(method, path, r)
            /\ LET run == RunAdapter(method, path, r)
               IN  pending' = [ stage |-> "finally", method |-> method,
                                path |-> path, sinkRaised |-> FALSE,
                                value |-> run.value, log |-> run.log ]
    /\ UNCHANGED << invocations, auditLog, loopVars, resolverVars >>

\* the finally block: logScrape is called and awaited, then the call ends
AdapterFinally ==
    /\ pending.stage = "finally"
    /\ auditLog' = auditLog \o LogScrapeCalls(pending.path, pending.log)
    /\ \E sinkRaised \in BOOLEAN :
         /\ pending' = [ pending EXCEPT !.stage = FinallyOutcome(sinkRaised),
                                        !.sinkRaised = sinkRaised ]
         /\ invocations' = Append(invocations,
                                  [ method |-> pending.method,
                                    ended |-> FinallyOutcome(sinkRaised) ])
    /\ UNCHANGED << loopVars, resolverVars >>

NextAdapter == AdapterBody \/ AdapterFinally

SpecAdapter == InitAdapter /\ [][NextAdapter]_vars

-----------------------------------------------------------------------------

Next == Plan \/ ShortCircuit \/ CallAdapter \/ FinishAttempt \/ Finalize

Spec == Init /\ [][Next]_vars

NextPlan == Plan

SpecPlan == InitPlan /\ [][NextPlan]_vars

-----------------------------------------------------------------------------
(* Properties *)

AllAvailable == [ FIRE_ENGINE_BETA_URL |-> TRUE, SCRAPING_BEE_API_KEY |-> TRUE,
                  PLAYWRIGHT_MICROSERVICE_URL |-> TRUE ]

\* an attempt has just been judged and `attempt` is still in scope
Judged == attempts > 0 /\ pc \in {"loop", "after"}

\* the plan has been computed
Planned == pc # "plan"

AnyFlag ==
    IsWaitPresent(pageOptions) \/ IsScreenshotPresent(pageOptions)
        \/ IsHeadersPresent(pageOptions)

IsLightweight(s) == s \in {"scrapingBee", "scrapingBeeLoad", "fetch"}

\* position of the first occurrence of x in s (0 when absent)
FirstIndex(s, x) ==
    IF x \in Range(s) THEN CHOOSE j \in 1..Len(s) :
                             s[j] = x /\ \A m \in 1..(j - 1) : s[m] # x
    ELSE 0

\* C1: scrapSingleUrl never raises to its caller.  Until it returns nothing
\* has been handed over; when it returns, the caller holds one Document; and
\* when an error reached the catch block (thrown by an adapter, the override
\* hook, a converter, the finalizer, or the terminal "all methods failed"
\* check) that Document has empty content, markdown and html and its metadata
\* holds sourceURL and the carried pageStatusCode and pageError.
C1_NeverRaises ==
    /\ pc # "done" => result.kind = "pending"
    /\ pc = "done" => result.kind = "document"
    /\ (pc = "done" /\ caught # "none") =>
          /\ StrLen(result.content) = 0
          /\ StrLen(result.markdown) = 0
          /\ result.html = EmptyContent
          /\ result.metadata.sourceURL = "urlToScrap"
          /\ result.metadata.pageStatusCode = pageStatusCode
          /\ result.metadata.pageError = pageError

\* every planned backend of a plan of at least two failed, the last carried
\* status is an error status with its message, and the caller holds the
\* degraded document
C1_Witness ==
    /\ pc = "done"
    /\ caught = "All scraping methods failed"
    /\ exit = "exhausted"
    /\ attempts >= 2
    /\ result.metadata.pageStatusCode = Num(ErrorFloor)
    /\ result.metadata.pageError = "error"

\* C2: an attempt whose converted text has trimmed length 100 or more ends
\* the loop as sufficient whatever its status code is, and an attempt whose
\* trimmed text is shorter than 100 is never judged sufficient.
C2_Threshold ==
    Judged =>
      /\ attempt.text.core >= SufficientLength => (pc = "after" /\ exit = "sufficient")
      /\ attempt.text.core < SufficientLength => exit # "sufficient"

\* an attempt with status 404 and a text of trimmed length exactly 100 ended
\* the loop as sufficient with backends left in the plan
C2_Witness ==
    /\ Judged
    /\ attempt.text.core = SufficientLength
    /\ attempt.pageStatusCode = Num(NotFound)
    /\ exit = "sufficient"
    /\ idx < Len(scrapersInOrder)

\* C3: after an attempt that reports status 404 with a trimmed text shorter
\* than 100 the loop is left: the iterator does not advance and no further
\* attempt starts (from "after" only the finalizer runs).
C3_NotFoundHalts ==
    (Judged /\ attempt.pageStatusCode = Num(NotFound)
            /\ attempt.text.core < SufficientLength) =>
        /\ pc = "after"
        /\ exit = "notfound"
        /\ idx = attempts

\* the first attempt reported 404 with empty text while four backends were
\* still planned
C3_Witness ==
    /\ pc = "after"
    /\ attempts = 1
    /\ attempt.pageStatusCode = Num(NotFound)
    /\ StrLen(attempt.text) = 0
    /\ Len(scrapersInOrder) = 5

\* C4: after any number of attempts the text, html, rawHtml and screenshot
\* held by the loop are those of the most recent attempt and of no earlier
\* one, and a Document built on the normal path carries that text, and that
\* html, rawHtml and screenshot where it carries any.
C4_Replaces ==
    /\ Judged =>
          /\ text = attempt.text /\ text.tag = attempts
          /\ html = attempt.html /\ html.tag = attempts
          /\ rawHtml = attempt.rawHtml /\ rawHtml.tag = attempts
          /\ screenshot = attempt.screenshot
          /\ screenshot.len > 0 => screenshot.tag = attempts
    /\ (pc = "done" /\ caught = "none" /\ attempts > 0) =>
          /\ result.content = attempt.text
          /\ result.markdown = attempt.text
          /\ result.content.tag = attempts
          /\ result.html \in { attempt.html, Absent }
          /\ result.rawHtml \in { attempt.rawHtml, Absent }
          /\ result.metadata.screenshot \in { attempt.screenshot, AbsentShot }

\* the second attempt's sufficient text is the content of the Document; the
\* first attempt was insufficient, or the loop would have stopped there
C4_Witness ==
    /\ pc = "done"
    /\ caught = "none"
    /\ attempts = 2
    /\ result.content.tag = 2
    /\ result.content.core >= SufficientLength

\* C5: with pre-fetched html of trimmed length >= 100 no adapter and no
\* override hook is ever invoked, whatever the availability, the forced
\* backend and the flags; with pre-fetched html of trimmed length < 100 the
\* short-circuit is never taken and the loop is left only after an attempt
\* has been made (or an adapter raised).
C5_Bypass ==
    /\ existingHtml.core >= SufficientLength =>
          /\ ~adapterInvoked
          /\ ~hookInvoked
          /\ attempts = 0
          /\ pc # "hook"
    /\ existingHtml.core < SufficientLength =>
          /\ exit # "shortcircuit"
          /\ pc \in {"after", "done"} => (attempts > 0 \/ exit = "exception")

\* a call with pre-fetched html of trimmed length exactly 100 returned a
\* Document with every backend available, a forced backend and a flag set
C5_Witness ==
    /\ pc = "done"
    /\ caught = "none"
    /\ existingHtml.core = SufficientLength
    /\ env = AllAvailable
    /\ defaultScraper = "playwright"
    /\ pageOptions.screenshot
    /\ result.content.via = "existing"

\* C6: the planned order never includes a backend whose endpoint or
\* credential is not configured.
C6_OnlyAvailable ==
    Planned => \A j \in 1..Len(scrapersInOrder) :
                  IsAvailable(env, scrapersInOrder[j])

C8_NoDuplicates ==
    Planned =>
      LET plan == scrapersInOrder
          given == Candidates(env, defaultScraper, IsWaitPresent(pageOptions),
                              IsScreenshotPresent(pageOptions),
                              IsHeadersPresent(pageOptions))
      IN  /\ \A a, b \in 1..Len(plan) : a # b => plan[a] # plan[b]
          /\ Range(plan) = Range(given)
          /\ \A a, b \in 1..Len(plan) :
                a < b => FirstIndex(given, plan[a]) < FirstIndex(given, plan[b])
          /\ defaultScraper # "" =>
                \A j \in 2..Len(plan) : plan[j] # defaultScraper

\* a forced backend that the default order holds in third place stands first
\* and only there
C8_Witness ==
    /\ Planned
    /\ defaultScraper = "playwright"
    /\ env = AllAvailable
    /\ ~AnyFlag
    /\ scrapersInOrder =
         << "playwright", "scrapingBee", "fire-engine", "scrapingBeeLoad", "fetch" >>

\* the default relative order of the lightweight backends
LightRank(s) ==
    CASE s = "scrapingBee" -> 1 [] s = "scrapingBeeLoad" -> 2 [] OTHER -> 3

\* with a flag set: heavy before lightweight, fire-engine before playwright,
\* lightweight backends in their default relative order
HeavyFirst(plan) ==
    \A a, b \in 1..Len(plan) :
        /\ (IsHeavy(plan[a]) /\ IsLightweight(plan[b])) => a < b
        /\ (plan[a] = "fire-engine" /\ plan[b] = "playwright") => a < b
        /\ (IsLightweight(plan[a]) /\ IsLightweight(plan[b])
              /\ LightRank(plan[a]) < LightRank(plan[b])) => a < b

\* C9 as stated: with a flag set the whole planned order is heavy-first, for
\* every availability configuration and every host override.
C9_HeavyFirstAlways ==
    (Planned /\ AnyFlag) => HeavyFirst(scrapersInOrder)

\* C9, amended: with a flag set the planned order apart from the forced
\* backend (which stands first) is heavy-first; with no forced backend this
\* is the whole planned order.
C9_HeavyFirstAfterForced ==
    (Planned /\ AnyFlag) =>
        HeavyFirst(SelectSeq(scrapersInOrder, LAMBDA s : s # defaultScraper))

\* a forced lightweight backend stands before the promoted heavy backends
C9_Witness ==
    /\ Planned
    /\ pageOptions = [ waitFor |-> 0, screenshot |-> TRUE, headers |-> FALSE ]
    /\ env = AllAvailable
    /\ defaultScraper = "scrapingBeeLoad"
    /\ scrapersInOrder =
         << "scrapingBeeLoad", "fire-engine", "playwright", "scrapingBee", "fetch" >>

\* C10: the carried pageError is populated only while the carried
\* pageStatusCode is a number >= 400, and an attempt that reports a status
\* below 400 leaves no pageError behind.
C10_PageError ==
    /\ pageError # NoError =>
          (pageStatusCode.k = "number" /\ pageStatusCode.v >= ErrorFloor)
    /\ (Judged /\ attempt.pageStatusCode.k = "number"
               /\ attempt.pageStatusCode.v < ErrorFloor) => pageError = NoError

\* an error set by an earlier attempt is still carried after an attempt that
\* reported no status and no error
C10_Witness ==
    /\ Judged
    /\ attempts >= 2
    /\ attempt.pageStatusCode = Undefined
    /\ attempt.pageError = NoError
    /\ pageError = "error"
    /\ pageStatusCode = Num(ErrorFloor)

AllFailed == "All scraping methods failed"

C13_PrefetchedSucceeds ==
    (pc = "done" /\ existingHtml.core >= SufficientLength
        /\ caught # "collaborator") =>
        /\ caught = "none"
        /\ result.content = text
        /\ result.content.via = "existing"

\* C12 as stated: when the hook returned a directive, the outcome of that
\* attempt carries the override fetch's content and the override fetch's
\* screenshot, not the planned backend's.
C12_OverrideReplaces ==
    (Judged /\ customScrapedContent # NoCustom) =>
        /\ attempt.rawHtml = customScrapedContent.html
        /\ attempt.html = customScrapedContent.html
        /\ attempt.screenshot = customScrapedContent.screenshot

\* the entry of the table that generateRequestParams looked up, if any
HasOverride ==
    /\ reqArgs.url.valid
    /\ StripWww(Hostname(reqArgs.url)) \in DOMAIN reqArgs.urlSpecificParams

Override == reqArgs.urlSpecificParams[StripWww(Hostname(reqArgs.url))]

Defaults == DefaultParams(reqArgs.url, reqArgs.wait_browser, reqArgs.timeout)

Resolved == reqArgs # NoArgs /\ reqParams # NoArgs

\* C14: generateRequestParams always returns.  For a malformed URL, and for a
\* URL whose hostname with one leading "www." removed has no entry in the
\* table, it returns exactly the defaults: the url, params {timeout,
\* wait_browser} and the marker header.  With an entry, every field of the
\* entry is in the result with the entry's value (an entry's `params`
\* replaces the default `params` whole), every field the entry lacks has its
\* default value, and the result has no other field.
C14_Resolve ==
    Resolved =>
        /\ ~HasOverride =>
              /\ reqParams = Defaults
              /\ DOMAIN reqParams = { "url", "params", "headers" }
              /\ reqParams.url = reqArgs.url
              /\ reqParams.params = [ timeout |-> reqArgs.timeout,
                                      wait_browser |-> reqArgs.wait_browser ]
        /\ HasOverride =>
              /\ DOMAIN reqParams = DOMAIN Defaults \cup DOMAIN Override
              /\ \A f \in DOMAIN Override : reqParams[f] = Override[f]
              /\ \A f \in DOMAIN Defaults \ DOMAIN Override :
                     reqParams[f] = Defaults[f]

\* a www. URL whose stripped hostname has an entry with params and a forced
\* backend but no headers: params and defaultScraper are the entry's, url and
\* headers the defaults
C14_Witness ==
    /\ Resolved
    /\ reqArgs.url.www = 1
    /\ HasOverride
    /\ DOMAIN Override = { "params", "defaultScraper" }
    /\ reqParams.params = OverrideValue("params")
    /\ reqParams.headers = Defaults.headers
    /\ reqParams.params # Defaults.params

\* the last adapter call has ended
Ended == pending.stage \in {"returned", "thrown"}

\* C15: every adapter call hands exactly one record to logScrape, whatever
\* the way out of its try block, and does so before it ends: the calls that
\* have ended and the records are as many, the j-th record is the one of the
\* j-th call, and the record of the last call is the logParams it filled in.
C15_LoggedOnce ==
    /\ Len(auditLog) = Len(invocations)
    /\ \A j \in 1..Len(invocations) :
          j <= Len(auditLog) /\ auditLog[j].scraper = invocations[j].method
    /\ Ended =>
          /\ Len(auditLog) > 0
          /\ auditLog[Len(auditLog)] = pending.log
          /\ pending.log.scraper = pending.method

\* two calls of different adapters have ended, the first by a decoding error
\* and the second by a timeout, and the log holds their two records in order
C15_Witness ==
    /\ Len(invocations) = 2
    /\ invocations[1].method = "playwright"
    /\ invocations[2].method = "fetch"
    /\ auditLog[1].error_message = DecodeFailure
    /\ auditLog[2].error_message = TimedOut
    /\ pending.path = "timeout"
    /\ pending.stage = "returned"

\* C16 as stated: when logScrape raises, the adapter still returns the result
\* it computed.
C16_LogFailureTolerated ==
    (Ended /\ pending.sinkRaised) => pending.stage = "returned"

\* C17 as stated: on a transport timeout, and with a log sink that works,
\* every adapter returns an empty result with no status code, and the error
\* message is "Request timed out" (in the result, or at least in the record
\* it logs), never the raw transport error.
C17_TimeoutResult ==
    (Ended /\ pending.path = "timeout" /\ ~pending.sinkRaised) =>
        /\ pending.stage = "returned"
        /\ pending.value.content = ""
        /\ pending.value.pageStatusCode = Undefined
        /\ \/ pending.value.pageError = TimedOut
           \/ pending.log.error_message = TimedOut

\* C18: the plan is computed once and stays what the planner returned; the
\* backends attemptScraping has been called with are a prefix of the plan, in
\* its order and each at most once; at most one attempt is in progress, and
\* it is the next of the plan; a further attempt starts only after the
\* previous one was judged insufficient with a carried status other than 404;
\* the attempts never exceed the length of the plan.
C18_Sequential ==
    /\ Planned =>
          scrapersInOrder =
            getScrapingFallbackOrder(env, defaultScraper,
                                     IsWaitPresent(pageOptions),
                                     IsScreenshotPresent(pageOptions),
                                     IsHeadersPresent(pageOptions))
    /\ Len(tried) <= Len(scrapersInOrder)
    /\ tried = SubSeq(scrapersInOrder, 1, Len(tried))
    /\ \A i, j \in 1..Len(tried) : i # j => tried[i] # tried[j]
    /\ attempts <= Len(tried)
    /\ Len(tried) <= attempts + 1
    /\ pc \in {"loop", "after"} => Len(tried) = attempts
    /\ pc = "hook" => Len(tried) = attempts + 1 /\ idx = Len(tried)
    /\ pc = "loop" => idx = attempts + 1 /\ idx <= Len(scrapersInOrder)
    /\ (pc \in {"loop", "hook"} /\ attempts > 0) =>
          /\ text.core < SufficientLength
          /\ pageStatusCode # Num(NotFound)

\* a plan of at least three backends has been attempted to its end, one
\* backend after the other
C18_Witness ==
    /\ pc = "after"
    /\ exit = "exhausted"
    /\ Len(scrapersInOrder) >= 3
    /\ tried = scrapersInOrder
    /\ attempts = Len(scrapersInOrder)

\* C19 as stated: when an attempt is judged, the carried status becomes the
\* attempt's status if the attempt reported one; an attempt that reported no
\* status (undefined or null) leaves the carried status and the carried
\* pageError unchanged; and the carried status is always a number.
C19_CarryOver ==
    [][ attempts' = attempts + 1 =>
          /\ attempt'.pageStatusCode.k = "number" =>
                pageStatusCode' = attempt'.pageStatusCode
          /\ attempt'.pageStatusCode.k # "number" =>
                /\ pageStatusCode' = pageStatusCode
                /\ pageError' = pageError
          /\ pageStatusCode'.k = "number" ]_vars

\* C20 as stated: every adapter called during an attempt, by the switch or
\* for a "fire-engine" directive of the hook, belongs to a backend whose
\* endpoint or credential is set.
C20_OnlyConfiguredCalled ==
    \A j \in 1..Len(calls) : IsAvailable(env, calls[j])

\* the loop was left by running out of planned backends or by a 404
LeftByExhaustion == exit \in {"exhausted", "notfound"}

\* C21: the terminal failure is raised only with empty text held.  Whenever
\* the loop was left by exhausting the plan or by a 404 while holding
\* non-empty text whose trimmed length is below 100, the terminal failure is
\* not raised, and the Document the finalizer returns has that text as
\* content and markdown and the carried status and error in its metadata.
C21_InsufficientTextReturned ==
    /\ caught = AllFailed => StrLen(text) = 0
    /\ (pc = "done" /\ LeftByExhaustion /\ StrLen(text) > 0
           /\ Trim(text).core < SufficientLength) =>
          /\ caught # AllFailed
          /\ text = attempt.text
          /\ caught = "none" =>
                /\ result.kind = "document"
                /\ result.content = text
                /\ result.markdown = text
                /\ result.metadata.pageStatusCode = pageStatusCode
                /\ result.metadata.pageError = pageError

\* every backend of a plan of at least two returned text made of whitespace
\* only, the last one with an error status: the Document returned has that
\* text as content and carries the status and its error
C21_Witness ==
    /\ pc = "done"
    /\ exit = "exhausted"
    /\ attempts >= 2
    /\ caught = "none"
    /\ text.core = 0
    /\ text.pad > 0
    /\ result.content = text
    /\ result.metadata.pageStatusCode = Num(ErrorFloor)
    /\ result.metadata.pageError = "error"

\* C22: the status and error of a judged attempt are those the planned
\* backend's call returned (scraperResponse), whatever the override fetch
\* reported; so the loop halts on a 404 only when the planned backend
\* reported 404, and the carried status and error are those that the planned
\* backends' statuses give.
C22_PlannedStatusKept ==
    Judged =>
        /\ attempt.pageStatusCode = scraperResponse.pageStatusCode
        /\ attempt.pageError = OrUndefined(scraperResponse.pageError)
        /\ exit = "notfound" =>
              scraperResponse.pageStatusCode = Num(NotFound)
        /\ TruthyNum(scraperResponse.pageStatusCode) =>
              pageStatusCode = scraperResponse.pageStatusCode
        /\ JsLt(scraperResponse.pageStatusCode, ErrorFloor) =>
              pageError = NoError

\* the planned backend reported 200 with short text, the override fetch
\* reported 404 with an error: the attempt's status is 200, no error is
\* carried and the loop goes on to the next backend
C22_Witness ==
    /\ Judged
    /\ pc = "loop"
    /\ customScrapedContent # NoCustom
    /\ customScrapedContent.pageStatusCode = Num(NotFound)
    /\ customScrapedContent.pageError = "error"
    /\ scraperResponse.pageStatusCode = Num(InitialStatus)
    /\ attempt.pageStatusCode = Num(InitialStatus)
    /\ attempt.rawHtml = customScrapedContent.html
    /\ pageStatusCode = Num(InitialStatus)
    /\ pageError = NoError

====
